---- MODULE Spec2Model ----
(***************************************************************************)
(* Model of fastmod (src/fastmod.py): a coordinator process walks a        *)
(* directory tree and feeds (root, name, perms) tasks through one FIFO     *)
(* queue to ncpus worker processes, which buffer the resolved paths per    *)
(* permission string and hand them in batches to chgrp / chmod.            *)
(***************************************************************************)
EXTENDS Integers, Sequences, FiniteSets, TLC

(* ---------------------------------------------------------------------- *)
(* Bounds of the model                                                     *)
(* ---------------------------------------------------------------------- *)
MaxEntries == 3
MaxCores == 2
MaxBlock == 2

(* ---------------------------------------------------------------------- *)
(* Module-level values of fastmod.py                                       *)
(* ---------------------------------------------------------------------- *)
\* None where a string is expected, and None where a path is expected (a path
\* is the sequence of its components)
None == "None"
NoRoot == <<>>
DOT == "."

\* The defaults as they are on a machine of two CPUs with FASTMOD_BLOCKSIZE=2
\* in the environment (lines 21 and 24 read both from the environment).
DEFAULT_BLOCKSIZE == 2
DEFAULT_CORES == 1
DEFAULT_PRESET == "baseline"
PRIMARY_GROUP == "staff"

PRESETS ==
  [ p \in {"baseline", "group-allowed", "private", "private-group", "readonly"} |->
      CASE p = "baseline"      -> [fil |-> "u+rw,g+r-w,o+r-w", dir |-> "u+rwx,g+rxs-w,o+rx-w"]
        [] p = "group-allowed" -> [fil |-> "ug+rw,o+r-w",      dir |-> "ug+rwx,g+s,o+rx-w"]
        [] p = "private"       -> [fil |-> "u+rw,go-rwx",      dir |-> "u+rwx,g-rwx,o-rwx"]
        [] p = "private-group" -> [fil |-> "ug+rw,o-rwx",      dir |-> "ug+rwx,g+s,o-rwx"]
        [] p = "readonly"      -> [fil |-> "a-w,+t",           dir |-> "a-w,+t"] ]

(* ---------------------------------------------------------------------- *)
(* The file system under argv[1]                                           *)
(* ---------------------------------------------------------------------- *)
\* A target is missing, a single file, or a directory tree.  In a tree the
\* directories are 1..nd (1 is the target itself), parent[d] < d is the
\* directory holding d, and nfiles[d] is the number of non-directory entries
\* directly inside d.  readable[d] tells whether d can be listed (scandir
\* succeeds), and denied which entries the user may not change: "none" of
\* them, the directories ("dirs") or "all" of them.
DirNames == <<"top", "d2", "d3", "d4", "d5", "d6">>
FileNames == <<"f1", "f2", "f3", "f4", "f5", "f6">>
DirName(d) == DirNames[d]
FileName(k) == FileNames[k]

RECURSIVE Sum(_)
Sum(f) == IF Len(f) = 0 THEN 0 ELSE f[Len(f)] + Sum(SubSeq(f, 1, Len(f) - 1))

\* Number of entries (directories and files) of a tree
Entries(t) == t.nd + Sum(t.nfiles)

Trees ==
  UNION { { [kind |-> "dir", nd |-> n, parent |-> par, nfiles |-> nf,
               readable |-> rd, denied |-> dn] :
              par \in [1..n -> 0..(n - 1)], nf \in [1..n -> 0..(MaxEntries - n)],
              rd \in [1..n -> BOOLEAN], dn \in {"none", "dirs", "all"} } :
          n \in 1..MaxEntries }

WellFormed(t) ==
  /\ t.parent[1] = 0
  /\ \A d \in 2..t.nd : t.parent[d] \in 1..(d - 1)
  /\ Entries(t) <= MaxEntries

\* A tree all of whose directories can be listed and all of whose entries
\* can be changed
Sound(t) == (\A d \in 1..t.nd : t.readable[d]) /\ t.denied = "none"

MissingPath ==
  [kind |-> "missing", nd |-> 0, parent |-> <<>>, nfiles |-> <<>>, readable |-> <<>>,
   denied |-> "none"]
SingleFile(dn) ==
  [kind |-> "file", nd |-> 0, parent |-> <<>>, nfiles |-> <<>>, readable |-> <<>>,
   denied |-> dn]

FileSystems ==
  { MissingPath, SingleFile("none") } \cup { t \in Trees : WellFormed(t) /\ Sound(t) }

\* os.path.exists / os.path.isdir on the target
Exists(t) == t.kind # "missing"
IsDir(t) == t.kind = "dir"

\* The root string os.walk reports for directory d: the target path joined
\* with the names on the way down.
RECURSIVE RootOf(_, _)
RootOf(t, d) == IF d = 1 THEN <<DirName(1)>> ELSE Append(RootOf(t, t.parent[d]), DirName(d))

\* The sequence os.walk yields, top-down: a directory, then each of its
\* sub-directories in turn.  A directory that cannot be listed is passed over
\* in silence, with all that is below it (os.walk ignores the error of
\* scandir when no onerror is given).
RECURSIVE WalkFrom(_, _)
RECURSIVE WalkChildren(_, _, _)
WalkChildren(t, d, c) ==
  IF c > t.nd THEN <<>>
  ELSE (IF t.parent[c] = d THEN WalkFrom(t, c) ELSE <<>>) \o WalkChildren(t, d, c + 1)
WalkFrom(t, d) == IF t.readable[d] THEN <<d>> \o WalkChildren(t, d, d + 1) ELSE <<>>

OsWalk(t) == [ i \in 1..Len(WalkFrom(t, 1)) |-> [root |-> RootOf(t, WalkFrom(t, 1)[i]),
                                   files |-> [k \in 1..t.nfiles[WalkFrom(t, 1)[i]] |-> FileName(k)]] ]

\* The paths of the entries of a tree: each directory and each file in it
AllPaths(t) ==
  { RootOf(t, d) : d \in 1..t.nd } \cup
  UNION { { Append(RootOf(t, d), FileName(k)) : k \in 1..t.nfiles[d] } : d \in 1..t.nd }

\* What is on disk at the target before the first run: each entry with the
\* mode and the group it was created with
DiskPaths(t) == IF IsDir(t) THEN AllPaths(t) ELSE IF Exists(t) THEN {<<DirName(1)>>} ELSE {}
FreshDisk(t) == [ p \in DiskPaths(t) |-> [mode |-> "created", group |-> "created"] ]

\* The paths the user may not change
Denied(t) ==
  IF t.denied = "all" THEN DiskPaths(t)
  ELSE IF t.denied = "dirs" THEN { RootOf(t, d) : d \in 1..t.nd }
  ELSE {}

\* The status os.system returns for a chmod or a chgrp over a set of paths:
\* non-zero when the command could not change one of them
Ret(t, paths) == IF paths \cap Denied(t) # {} THEN 256 ELSE 0

\* The disk after a command has run: chmod sets the mode of each path it
\* names and may change from its permission string alone, chgrp sets the
\* group; a path the user may not change is left as it is.
Apply(t, d, call) ==
  [ p \in DOMAIN d |->
      IF p \notin call.paths \/ p \in Denied(t) THEN d[p]
      ELSE IF call.cmd = "chmod" THEN [d[p] EXCEPT !.mode = call.arg]
      ELSE [d[p] EXCEPT !.group = call.arg] ]

(* ---------------------------------------------------------------------- *)
(* Command line                                                            *)
(* ---------------------------------------------------------------------- *)
\* An argument is kept as what parse_args looks at: the two-character prefix
\* it starts with ("-G", "-C", "-B", "--", or "" for none of them), the text
\* after that prefix (arg[2:]), its value under int(), and arg.split(":").
Arg(flag, rest, num, parts) == [flag |-> flag, rest |-> rest, num |-> num, parts |-> parts]
PathArg == Arg("", "", 0, <<DirName(1)>>)
GroupArg(g) == Arg("-G", g, 0, <<>>)
CoresArg(n) == Arg("-C", "", n, <<>>)
BlockArg(n) == Arg("-B", "", n, <<>>)
QuietArg == Arg("-q", "", 0, <<>>)
PresetArg(name) == Arg("--", name, 0, <<>>)
FlagsArg(parts) == Arg("", "", 0, parts)

\* class Config
Config ==
  [path |-> None,
   perms_fil |-> PRESETS[DEFAULT_PRESET].fil,
   perms_dir |-> PRESETS[DEFAULT_PRESET].dir,
   group |-> None,
   set_group |-> FALSE,
   ncpus |-> DEFAULT_CORES,
   blocksize |-> DEFAULT_BLOCKSIZE,
   quiet |-> FALSE]

\* One turn of the loop over argv[2:]: the new config, or ok = FALSE where
\* parse_args returns None.
ParseArg(config, arg) ==
  IF arg.flag = "-G" THEN
    [ok |-> TRUE,
     config |-> [config EXCEPT !.set_group = TRUE,
                               !.group = IF arg.rest = "" THEN PRIMARY_GROUP ELSE arg.rest]]
  ELSE IF arg.flag = "-C" THEN [ok |-> TRUE, config |-> [config EXCEPT !.ncpus = arg.num]]
  ELSE IF arg.flag = "-B" THEN [ok |-> TRUE, config |-> [config EXCEPT !.blocksize = arg.num]]
  ELSE IF arg.flag = "-q" THEN [ok |-> TRUE, config |-> [config EXCEPT !.quiet = TRUE]]
  ELSE IF arg.flag = "--" THEN
    IF arg.rest \notin DOMAIN PRESETS THEN [ok |-> FALSE, config |-> config]
    ELSE [ok |-> TRUE,
          config |-> [config EXCEPT !.perms_fil = PRESETS[arg.rest].fil,
                                    !.perms_dir = PRESETS[arg.rest].dir]]
  ELSE IF Len(arg.parts) > 1 THEN
    IF Len(arg.parts) # 2 THEN [ok |-> FALSE, config |-> config]
    ELSE [ok |-> TRUE,
          config |-> [config EXCEPT !.perms_fil = arg.parts[1], !.perms_dir = arg.parts[2]]]
  ELSE [ok |-> TRUE,
        config |-> [config EXCEPT !.perms_fil = arg.parts[1], !.perms_dir = arg.parts[1]]]

RECURSIVE ParseLoop(_, _)
ParseLoop(config, args) ==
  IF Len(args) = 0 THEN [ok |-> TRUE, config |-> config]
  ELSE LET r == ParseArg(config, Head(args))
       IN  IF r.ok THEN ParseLoop(r.config, Tail(args)) ELSE r

\* parse_args(argv) once the path is known to exist
ParseArgs(args) == ParseLoop([Config EXCEPT !.path = args[2].parts[1]], SubSeq(args, 3, Len(args)))

(* ---------------------------------------------------------------------- *)
(* Inputs                                                                  *)
(* ---------------------------------------------------------------------- *)
ProgArg == Arg("", "", 0, <<"fastmod">>)

\* Preset permissions (files and directories differ) with a group, or one
\* permission string for both and no group
PermGroupChoices == { <<GroupArg("users")>>, <<FlagsArg(<<"a+x">>)>> }
CoreChoices == { <<CoresArg(n)>> : n \in 0..MaxCores }
BlockChoices == { <<BlockArg(n)>> : n \in 0..MaxBlock }

\* Every combination of those with a worker count and a block size
EngineArgvs ==
  { <<ProgArg, PathArg>> \o pg \o c \o b :
      pg \in PermGroupChoices, c \in CoreChoices, b \in BlockChoices }

\* The remaining forms of the command line, one at a time
OtherArgvs ==
  { <<ProgArg>>,
    <<ProgArg, PathArg>>,
    <<ProgArg, PathArg, QuietArg, GroupArg("")>>,
    <<ProgArg, PathArg, FlagsArg(<<"a+x">>), GroupArg("users"), BlockArg(1)>>,
    <<ProgArg, PathArg, PresetArg("readonly"), CoresArg(MaxCores)>>,
    <<ProgArg, PathArg, PresetArg("nosuch")>>,
    <<ProgArg, PathArg, FlagsArg(<<"u+xs,g+x,o-w", "g+s,o-w">>), QuietArg>>,
    <<ProgArg, PathArg, FlagsArg(<<"u+x", "g+s", "o-w">>)>> }

Argvs == EngineArgvs \cup OtherArgvs

(* ---------------------------------------------------------------------- *)
(* State                                                                   *)
(* ---------------------------------------------------------------------- *)
VARIABLES
  argv,      \* sys.argv
  fs,        \* what argv[1] names on disk
  pc,        \* where the main process is
  status,    \* <<its exit status>>, empty while it runs
  out,       \* what it has printed, one tag per message
  config,    \* the Config parse_args returned
  hasQueue,  \* mp.Queue() has been created
  queue,     \* the items in the queue, oldest first
  workers,   \* the worker processes, in the order of the list `workers`
  idx,       \* how far the main process is in its current loop
  total,     \* fastmod_folder's counter
  calls,     \* per process (0 is the main process), the os.system calls it made
  received,  \* per worker, every item it took from the queue
  enqueued,  \* every item put on the queue
  failed,    \* some chmod or chgrp of this run returned a non-zero status
  disk,      \* per path under the target, its mode and group
  run,       \* 1 in the first run of the command, 2 in a second one
  firstDisk  \* the disk as the first run left it (the disk itself before)

vars == <<argv, fs, pc, status, out, config, hasQueue, queue, workers, idx, total,
          calls, received, enqueued, failed, disk, run, firstDisk>>

(* ---------------------------------------------------------------------- *)
(* worker_main                                                             *)
(* ---------------------------------------------------------------------- *)
Task(root, name, perms) == [root |-> root, name |-> name, perms |-> perms]
Sentinel == Task(NoRoot, None, None)

\* lines 75-78: the path a task names
Resolve(root, name) == IF name = DOT THEN root ELSE Append(root, name)

\* line 86: the test that starts a flush inside the loop
\* faulty variants: never flushes inside the loop; flushes one path late
ShouldFlushNever(size, blocksize) == FALSE
ShouldFlushLate(size, blocksize) == size > blocksize
ShouldFlush(size, blocksize) == size >= blocksize

\* lines 88-90 and 96-98: the commands one flush runs, in order
\* faulty variant: permissions before ownership
FlushPlanSwapped(group) == IF group # None THEN <<"chmod", "chgrp">> ELSE <<"chmod">>
FlushPlan(group) == IF group # None THEN <<"chgrp", "chmod">> ELSE <<"chmod">>

\* lines 93-94: the drain loop passes over a buffer that holds nothing
\* faulty variant: the drain loop flushes empty buffers too
DrainSkipsNothing(buffered) == FALSE
DrainSkips(buffered) == buffered = {}

\* lines 92-98: the first key at or after position i of the dict (in insertion
\* order) that the drain loop flushes, 0 when the loop is over
RECURSIVE NextDrain(_, _)
\* faulty variants: no drain at all; a drain that stops after the first key
NextDrainNone(w, i) == 0
NextDrainFirstOnly(w, i) ==
  IF i > 1 \/ Len(w.order) = 0 THEN 0
  ELSE IF w.buffer[w.order[1]] = {} THEN 0 ELSE 1
NextDrain(w, i) ==
  IF i > Len(w.order) THEN 0
  ELSE IF DrainSkips(w.buffer[w.order[i]]) THEN NextDrain(w, i + 1)
  ELSE i

\* lines 89-90 and 97-98: what is left of a flush after a command returned
\* status r, which the code does not look at
\* faulty variant: a command that fails ends the flush
AfterCallStopOnError(todo, r) == IF r # 0 THEN <<>> ELSE Tail(todo)
AfterCall(todo, r) == Tail(todo)

\* One os.system call of a worker: the command, whether it carries -f, the
\* group or permission string, and the quoted paths.  phase records where in
\* worker_main the call was made.
Call(cmd, quiet, group, perms, paths, phase) ==
  [cmd |-> cmd, f |-> quiet, arg |-> IF cmd = "chgrp" THEN group ELSE perms,
   paths |-> paths, phase |-> phase]

NewWorker ==
  [pc |-> "new", buffer |-> <<>>, order |-> <<>>, perms |-> None, todo |-> <<>>, drain |-> 0]

\* the worker's arguments (line 232)
GroupOrNone == IF config.set_group THEN config.group ELSE None

\* lines 74-86: take an item; on the termination signal leave the loop, else
\* buffer the path under its permission string and test the block size.
WorkerGet(w) ==
  /\ w \in DOMAIN workers
  /\ workers[w].pc = "get"
  /\ queue # <<>>
  /\ LET item == Head(queue)
         me == workers[w]
     IN  /\ queue' = Tail(queue)
         /\ received' = [received EXCEPT ![w] = Append(@, item)]
         /\ IF item.root = NoRoot
            THEN LET d == NextDrain(me, 1)
                 IN  workers' = [workers EXCEPT ![w] =
                       IF d = 0 THEN [me EXCEPT !.pc = "done"]
                       ELSE [me EXCEPT !.pc = "drain", !.drain = d,
                                       !.perms = me.order[d],
                                       !.todo = FlushPlan(GroupOrNone)]]
            ELSE LET path == Resolve(item.root, item.name)
                     known == item.perms \in DOMAIN me.buffer
                     old == IF known THEN me.buffer[item.perms] ELSE {}
                     buf == (item.perms :> (old \cup {path})) @@ me.buffer
                     ord == IF known THEN me.order ELSE Append(me.order, item.perms)
                 IN  workers' = [workers EXCEPT ![w] =
                       IF ShouldFlush(Cardinality(buf[item.perms]), config.blocksize)
                       THEN [me EXCEPT !.buffer = buf, !.order = ord, !.pc = "flush",
                                       !.perms = item.perms,
                                       !.todo = FlushPlan(GroupOrNone)]
                       ELSE [me EXCEPT !.buffer = buf, !.order = ord]]
  /\ UNCHANGED <<failed, disk, run, firstDisk, argv, fs, pc, status, out, config, hasQueue, idx, total, calls, enqueued>>

\* lines 87-91: the next command of a flush inside the loop; after the last
\* one the buffer is cleared and the worker goes back to the queue.
WorkerFlush(w) ==
  /\ w \in DOMAIN workers
  /\ workers[w].pc = "flush"
  /\ LET me == workers[w]
         c == Call(Head(me.todo), config.quiet, GroupOrNone, me.perms,
                   me.buffer[me.perms], "loop")
     IN  LET r == Ret(fs, c.paths) IN
           /\ calls' = [calls EXCEPT ![w] = Append(@, c)]
           /\ failed' = (failed \/ r # 0)
           /\ disk' = Apply(fs, disk, c)
           /\ workers' = [workers EXCEPT ![w] =
                IF AfterCall(me.todo, r) # <<>> THEN [me EXCEPT !.todo = AfterCall(me.todo, r)]
                ELSE [me EXCEPT !.todo = <<>>, !.pc = "get",
                                !.buffer = [me.buffer EXCEPT ![me.perms] = {}]]]
  /\ UNCHANGED <<run, firstDisk, argv, fs, pc, status, out, config, hasQueue, queue, idx, total,
                 received, enqueued>>

\* lines 92-98: the next command of a flush after the loop; after the last
\* one the loop over the dict goes on, and the process ends when it is over.
WorkerDrain(w) ==
  /\ w \in DOMAIN workers
  /\ workers[w].pc = "drain"
  /\ LET me == workers[w]
         c == Call(Head(me.todo), config.quiet, GroupOrNone, me.perms,
                   me.buffer[me.perms], "drain")
         d == NextDrain(me, me.drain + 1)
     IN  LET r == Ret(fs, c.paths) IN
           /\ calls' = [calls EXCEPT ![w] = Append(@, c)]
           /\ failed' = (failed \/ r # 0)
           /\ disk' = Apply(fs, disk, c)
           /\ workers' = [workers EXCEPT ![w] =
                IF AfterCall(me.todo, r) # <<>> THEN [me EXCEPT !.todo = AfterCall(me.todo, r)]
                ELSE IF d = 0 THEN [me EXCEPT !.todo = <<>>, !.pc = "done"]
                ELSE [me EXCEPT !.todo = FlushPlan(GroupOrNone), !.drain = d,
                                !.perms = me.order[d]]]
  /\ UNCHANGED <<run, firstDisk, argv, fs, pc, status, out, config, hasQueue, queue, idx, total,
                 received, enqueued>>

(* ---------------------------------------------------------------------- *)
(* fastmod_folder                                                          *)
(* ---------------------------------------------------------------------- *)
\* lines 240-245: the items the walk puts on the queue, in order: for each
\* directory os.walk yields, the directory itself and then each of its files.
RECURSIVE Flatten(_)
Flatten(ss) == IF Len(ss) = 0 THEN <<>> ELSE Head(ss) \o Flatten(Tail(ss))

\* faulty variant: the directories themselves are not enqueued
WalkItemsNoDirs(t, cfg) ==
  Flatten([ i \in 1..Len(OsWalk(t)) |->
              [ k \in 1..Len(OsWalk(t)[i].files) |->
                  Task(OsWalk(t)[i].root, OsWalk(t)[i].files[k], cfg.perms_fil) ] ])
WalkItems(t, cfg) ==
  Flatten([ i \in 1..Len(OsWalk(t)) |->
              <<Task(OsWalk(t)[i].root, DOT, cfg.perms_dir)>> \o
              [ k \in 1..Len(OsWalk(t)[i].files) |->
                  Task(OsWalk(t)[i].root, OsWalk(t)[i].files[k], cfg.perms_fil) ] ])

\* lines 247-248: one termination signal per worker
\* faulty variant: one termination signal too few
SentinelCountShort(ws) == Len(ws) - 1
SentinelCount(ws) == Len(ws)

\* The loops of fastmod_folder in order, and how many turns each takes; a
\* loop of no turns is passed over.
\* (faulty variant: the termination signals are put before the walk)
StagesSignalFirst == <<"start", "signal", "walk", "join", "report">>
Stages == <<"start", "walk", "signal", "join", "report">>
Turns(stage, cfg, ws) ==
  CASE stage = "start"  -> Len(ws)
    [] stage = "walk"   -> Len(WalkItems(fs, cfg))
    [] stage = "signal" -> SentinelCount(ws)
    [] stage = "join"   -> Len(ws)
    [] stage = "report" -> 1

RECURSIVE StageFrom(_, _, _)
StageFrom(k, cfg, ws) ==
  IF Turns(Stages[k], cfg, ws) > 0 THEN Stages[k] ELSE StageFrom(k + 1, cfg, ws)

\* The loop the main process enters when the loop `stage` is over
After(stage, cfg, ws) ==
  StageFrom((CHOOSE k \in 1..Len(Stages) : Stages[k] = stage) + 1, cfg, ws)

\* lines 226-234: announce the run, create the queue and the Process objects
FolderBegin ==
  /\ pc = "fastmod_folder"
  /\ out' = IF config.quiet THEN out ELSE Append(out, "Using")
  /\ hasQueue' = TRUE
  /\ queue' = <<>>
  /\ workers' = [w \in 1..config.ncpus |-> NewWorker]
  /\ calls' = [p \in 0..(IF config.ncpus > 0 THEN config.ncpus ELSE 0) |-> <<>>]
  /\ received' = [w \in 1..config.ncpus |-> <<>>]
  /\ idx' = 1
  /\ pc' = StageFrom(1, config, workers')
  /\ UNCHANGED <<failed, disk, run, firstDisk, argv, fs, status, config, total, enqueued>>

\* lines 235-236: start the next worker (a forked child that runs worker_main);
\* lines 237-239 after the last one
StartWorker ==
  /\ pc = "start"
  /\ workers' = [workers EXCEPT ![idx] = [@ EXCEPT !.pc = "get"]]
  /\ IF idx < Len(workers)
     THEN idx' = idx + 1 /\ pc' = pc
     ELSE idx' = 1 /\ pc' = After("start", config, workers)
  /\ UNCHANGED <<failed, disk, run, firstDisk, argv, fs, status, out, config, hasQueue, queue, total, calls,
                 received, enqueued>>

\* lines 240-245: put the next item of the walk and count it
WalkPut ==
  /\ pc = "walk"
  /\ LET items == WalkItems(fs, config)
     IN  /\ queue' = Append(queue, items[idx])
         /\ enqueued' = Append(enqueued, items[idx])
         /\ total' = total + 1
         /\ IF idx < Len(items)
            THEN idx' = idx + 1 /\ pc' = pc
            ELSE idx' = 1 /\ pc' = After("walk", config, workers)
  /\ UNCHANGED <<failed, disk, run, firstDisk, argv, fs, status, out, config, hasQueue, workers, calls, received>>

\* lines 247-248: put the next termination signal
PutSentinel ==
  /\ pc = "signal"
  /\ queue' = Append(queue, Sentinel)
  /\ enqueued' = Append(enqueued, Sentinel)
  /\ IF idx < SentinelCount(workers)
     THEN idx' = idx + 1 /\ pc' = pc
     ELSE idx' = 1 /\ pc' = After("signal", config, workers)
  /\ UNCHANGED <<failed, disk, run, firstDisk, argv, fs, status, out, config, hasQueue, workers, total, calls, received>>

\* lines 250-251: join the next worker; returns once that process has ended
JoinWorker ==
  /\ pc = "join"
  /\ workers[idx].pc = "done"
  /\ IF idx < Len(workers)
     THEN idx' = idx + 1 /\ pc' = pc
     ELSE idx' = 1 /\ pc' = After("join", config, workers)
  /\ UNCHANGED <<failed, disk, run, firstDisk, argv, fs, status, out, config, hasQueue, queue, workers, total, calls,
                 received, enqueued>>

\* lines 253-256 and 288: print the summary (duration/total raises
\* ZeroDivisionError when nothing was counted) and return 0 from main
Report ==
  /\ pc = "report"
  /\ IF total = 0
     THEN out' = Append(out, "ZeroDivisionError") /\ status' = <<1>>
     ELSE out' = Append(out, "Set permissions") /\ status' = <<0>>
  /\ pc' = "exit"
  /\ UNCHANGED <<failed, disk, run, firstDisk, argv, fs, config, hasQueue, queue, workers, idx, total, calls,
                 received, enqueued>>

(* ---------------------------------------------------------------------- *)
(* fastmod_file                                                            *)
(* ---------------------------------------------------------------------- *)
\* lines 261-263: the commands run on a single file, in order
\* faulty variant: the group is never applied to a single file
FilePlanNoGroup(cfg) == <<"chmod">>
\* variant with the order the help text announces
FilePlanGroupFirst(cfg) == (IF cfg.set_group THEN <<"chgrp">> ELSE <<>>) \o <<"chmod">>
FilePlan(cfg) == <<"chmod">> \o (IF cfg.set_group THEN <<"chgrp">> ELSE <<>>)

\* lines 261-263: run the next command on the path
FileSystemCall ==
  /\ pc = "fastmod_file"
  /\ LET plan == FilePlan(config)
         c == Call(plan[idx], FALSE, config.group, config.perms_fil, {<<config.path>>}, "file")
     IN  LET r == Ret(fs, c.paths) IN
           /\ calls' = [calls EXCEPT ![0] = Append(@, c)]
           /\ failed' = (failed \/ r # 0)
           /\ disk' = Apply(fs, disk, c)
           /\ IF idx < Len(plan)
              THEN idx' = idx + 1 /\ pc' = pc
              ELSE idx' = 1 /\ pc' = "file_done"
  /\ UNCHANGED <<run, firstDisk, argv, fs, status, out, config, hasQueue, queue, workers, total,
                 received, enqueued>>

\* lines 264 and 288: print "Done" and return 0 from main
FileDone ==
  /\ pc = "file_done"
  /\ out' = Append(out, "Done")
  /\ status' = <<0>>
  /\ pc' = "exit"
  /\ UNCHANGED <<failed, disk, run, firstDisk, argv, fs, config, hasQueue, queue, workers, idx, total, calls,
                 received, enqueued>>

(* ---------------------------------------------------------------------- *)
(* main and parse_args                                                     *)
(* ---------------------------------------------------------------------- *)
\* line 185: the test parse_args makes on the path
\* faulty variant: no test of the path
PathFoundAlways(t) == TRUE
PathFound(t) == Exists(t)

\* lines 269-271: without arguments show the help and return 1
Main ==
  /\ pc = "main"
  /\ IF Len(argv) < 2
     THEN out' = Append(out, "help") /\ status' = <<1>> /\ pc' = "exit"
     ELSE out' = out /\ status' = status /\ pc' = "parse_args"
  /\ UNCHANGED <<failed, disk, run, firstDisk, argv, fs, config, hasQueue, queue, workers, idx, total, calls,
                 received, enqueued>>

\* lines 273-275 with 181-221: a missing path ends the process with status 1;
\* an unknown preset or a bad file:folder pair makes main return 1.
ParseArgsStep ==
  /\ pc = "parse_args"
  /\ IF ~PathFound(fs)
     THEN out' = Append(out, "no such path") /\ status' = <<1>> /\ pc' = "exit"
                /\ config' = config
     ELSE LET r == ParseArgs(argv)
          IN  IF r.ok
              THEN out' = out /\ status' = status /\ pc' = "settings" /\ config' = r.config
              ELSE out' = Append(out, "bad argument") /\ status' = <<1>> /\ pc' = "exit"
                     /\ config' = config
  /\ UNCHANGED <<failed, disk, run, firstDisk, argv, fs, hasQueue, queue, workers, idx, total, calls, received, enqueued>>

\* lines 277-286: print the settings unless quiet, then take the folder or
\* the single-file branch
Settings ==
  /\ pc = "settings"
  /\ out' = IF config.quiet THEN out
            ELSE out \o <<"Setting file permissions", "Setting directory permissions">>
                     \o (IF config.set_group THEN <<"Setting group ownership">> ELSE <<>>)
  /\ pc' = IF IsDir(fs) THEN "fastmod_folder" ELSE "fastmod_file"
  /\ UNCHANGED <<failed, disk, run, firstDisk, argv, fs, status, config, hasQueue, queue, workers, idx, total, calls,
                 received, enqueued>>

(* ---------------------------------------------------------------------- *)
(* Specification                                                           *)
(* ---------------------------------------------------------------------- *)
\* The state in which the process starts
Start ==
  /\ pc = "main"
  /\ status = <<>>
  /\ out = <<>>
  /\ config = Config
  /\ hasQueue = FALSE
  /\ queue = <<>>
  /\ workers = <<>>
  /\ idx = 1
  /\ total = 0
  /\ calls = [p \in {0} |-> <<>>]
  /\ received = <<>>
  /\ enqueued = <<>>
  /\ failed = FALSE

\* The first run of the command on a target as it was created
FirstRun ==
  /\ Start
  /\ run = 1
  /\ disk = FreshDisk(fs)
  /\ firstDisk = disk

Init ==
  /\ argv \in Argvs
  /\ fs \in FileSystems
  /\ FirstRun

Next ==
  \/ Main
  \/ ParseArgsStep
  \/ Settings
  \/ FolderBegin
  \/ StartWorker
  \/ WalkPut
  \/ PutSentinel
  \/ JoinWorker
  \/ Report
  \/ FileSystemCall
  \/ FileDone
  \/ \E w \in 1..MaxCores : WorkerGet(w)
  \/ \E w \in 1..MaxCores : WorkerFlush(w)
  \/ \E w \in 1..MaxCores : WorkerDrain(w)

Spec == Init /\ [][Next]_vars

\* The steps of the main process and of worker w.  The operating system runs
\* every process that can take a step: a started worker and the main process
\* are each scheduled again and again.
MainNext ==
  \/ Main \/ ParseArgsStep \/ Settings \/ FolderBegin \/ StartWorker \/ WalkPut
  \/ PutSentinel \/ JoinWorker \/ Report \/ FileSystemCall \/ FileDone
WorkerNext(w) == WorkerGet(w) \/ WorkerFlush(w) \/ WorkerDrain(w)

\* The runs checked for progress: every worker count and block size over the
\* trees of MaxEntries entries in at most two directories, and the other
\* forms of the command line over a missing path, a file and those trees.
FairArgvs ==
  { <<ProgArg, PathArg, c[1], b[1]>> : c \in CoreChoices, b \in BlockChoices } \cup OtherArgvs
FairFileSystems ==
  { t \in FileSystems : t.kind = "dir" => (Entries(t) = MaxEntries /\ t.nd <= 2) }

FairInit == argv \in FairArgvs /\ fs \in FairFileSystems /\ FirstRun

FairSpec ==
  /\ FairInit
  /\ [][Next]_vars
  /\ WF_vars(MainNext)
  /\ \A w \in 1..MaxCores : WF_vars(WorkerNext(w))

\* The runs in a hostile environment: a group is set, with every positive
\* worker count and block size (and once the defaults), over a single file
\* and the tree of MaxEntries entries made of a directory with its files and
\* one empty sub-directory, where either directory may be impossible to list
\* and entries may not be changed.
EnvArgvs ==
  { <<ProgArg, PathArg>> } \cup
  { <<ProgArg, PathArg, GroupArg("users"), CoresArg(c), BlockArg(b)>> :
      c \in 1..MaxCores, b \in 1..MaxBlock }
EnvFileSystems ==
  { SingleFile(dn) : dn \in {"none", "all"} } \cup
  { t \in Trees : WellFormed(t) /\ Entries(t) = MaxEntries /\ t.nd = 2 /\ t.nfiles[2] = 0 }

EnvInit == argv \in EnvArgvs /\ fs \in EnvFileSystems /\ FirstRun

EnvSpec ==
  /\ EnvInit
  /\ [][Next]_vars
  /\ WF_vars(MainNext)
  /\ \A w \in 1..MaxCores : WF_vars(WorkerNext(w))

\* lines 291-292, a second time: once the first run has ended, the same
\* command line is run again over the target as the first run left it.
Rerun ==
  /\ pc = "exit"
  /\ run = 1
  /\ run' = 2
  /\ firstDisk' = disk
  /\ pc' = "main"
  /\ status' = <<>>
  /\ out' = <<>>
  /\ config' = Config
  /\ hasQueue' = FALSE
  /\ queue' = <<>>
  /\ workers' = <<>>
  /\ idx' = 1
  /\ total' = 0
  /\ calls' = [p \in {0} |-> <<>>]
  /\ received' = <<>>
  /\ enqueued' = <<>>
  /\ failed' = FALSE
  /\ UNCHANGED <<argv, fs, disk>>

\* The runs made twice: a group or a permission string with every positive
\* worker count and block size, over a single file and the trees of
\* MaxEntries entries in at most two directories.
TwiceArgvs ==
  { <<ProgArg, PathArg>> \o pg \o <<CoresArg(c), BlockArg(b)>> :
      pg \in PermGroupChoices, c \in 1..MaxCores, b \in 1..MaxBlock }
TwiceFileSystems ==
  { t \in FileSystems : t.kind # "missing" /\ (t.kind = "dir" => (Entries(t) = MaxEntries /\ t.nd <= 2)) }

TwiceInit == argv \in TwiceArgvs /\ fs \in TwiceFileSystems /\ FirstRun
TwiceNext == Next \/ Rerun
TwiceSpec == TwiceInit /\ [][TwiceNext]_vars

(* ---------------------------------------------------------------------- *)
(* Vocabulary of the properties                                            *)
(* ---------------------------------------------------------------------- *)
Range(q) == { q[i] : i \in 1..Len(q) }
TasksOf(q) == SelectSeq(q, LAMBDA item : item # Sentinel)
SentinelsOf(q) == SelectSeq(q, LAMBDA item : item = Sentinel)
PathOf(item) == Resolve(item.root, item.name)

\* The chmod calls of the workers, as (worker, position) pairs
Chmods == { c \in UNION { {w} \X (1..Len(calls[w])) : w \in DOMAIN workers } :
              calls[c[1]][c[2]].cmd = "chmod" }
ChmodsWith(p) == { c \in Chmods : p \in calls[c[1]][c[2]].paths }

RECURSIVE SumSizes(_)
SumSizes(cs) ==
  IF cs = {} THEN 0
  ELSE LET c == CHOOSE x \in cs : TRUE
       IN  Cardinality(calls[c[1]][c[2]].paths) + SumSizes(cs \ {c})

AppliedBy(w, p) == \E i \in 1..Len(calls[w]) : calls[w][i].cmd = "chmod" /\ p \in calls[w][i].paths

Parsed ==
  /\ pc \notin {"main", "parse_args"}
  /\ \A i \in 1..Len(out) : out[i] \notin {"help", "no such path", "bad argument"}
FolderRun == Parsed /\ IsDir(fs) /\ pc # "settings"
WalkOver == FolderRun /\ pc \in {"signal", "join", "report", "exit"}
Reported == FolderRun /\ pc = "exit" /\ status = <<0>>

Unapplied(w) ==
  IF w \in DOMAIN received
  THEN { PathOf(item) : item \in Range(TasksOf(received[w])) } \
       UNION { calls[w][i].paths : i \in { j \in 1..Len(calls[w]) : calls[w][j].cmd = "chmod" } }
  ELSE {}

\* C2: no path is silently dropped.  With every process scheduled fairly,
\* whenever a worker holds paths it has not passed to chmod, a moment follows
\* at which it has passed all of them to chmod (what a worker has taken or
\* applied stays so, so each buffered path is eventually applied).
NoPathDropped ==
  \A w \in 1..MaxCores : (Unapplied(w) # {}) ~> (Unapplied(w) = {})

\* A worker that has ended applied one path in a flush inside the loop and
\* another in the drain after the termination signal.
NoPathDroppedWitness ==
  \E w \in DOMAIN workers :
    /\ workers[w].pc = "done"
    /\ \E i, j \in 1..Len(calls[w]) :
         /\ calls[w][i].cmd = "chmod" /\ calls[w][i].phase = "loop"
         /\ calls[w][j].cmd = "chmod" /\ calls[w][j].phase = "drain"
    /\ Unapplied(w) = {}

(* ---------------------------------------------------------------------- *)
(* C3                                                                      *)
(* ---------------------------------------------------------------------- *)
\* In log, every chmod directly follows a chgrp of group over the same
\* paths, and every chgrp is directly followed by its chmod (which, for the
\* last entry of the log, the process is still to run).
GroupThenPerms(log, group, chmodPending) ==
  \A i \in 1..Len(log) :
    /\ log[i].cmd = "chmod" =>
         /\ i > 1
         /\ log[i - 1].cmd = "chgrp"
         /\ log[i - 1].arg = group
         /\ log[i - 1].paths = log[i].paths
    /\ log[i].cmd = "chgrp" =>
         IF i < Len(log) THEN log[i + 1].cmd = "chmod" ELSE chmodPending

\* C3: in worker_main, when a group is configured every flush (inside the
\* loop or in the drain) runs chgrp over the batch and then chmod over the
\* same batch; when no group is configured no worker ever runs chgrp.
WorkerOwnershipFirst ==
  \A w \in DOMAIN workers :
    IF GroupOrNone # None
    THEN GroupThenPerms(calls[w], GroupOrNone,
                        workers[w].pc \in {"flush", "drain"} /\ workers[w].todo = <<"chmod">>)
    ELSE \A i \in 1..Len(calls[w]) : calls[w][i].cmd = "chmod"

\* With a group configured, a worker has ended after a flush inside the loop
\* and a drain flush, each a chgrp followed by a chmod.
WorkerOwnershipFirstWitness ==
  /\ GroupOrNone # None
  /\ \E w \in DOMAIN workers :
       /\ workers[w].pc = "done"
       /\ \E i, j \in 1..Len(calls[w]) :
            /\ calls[w][i].cmd = "chgrp" /\ calls[w][i].phase = "loop"
            /\ calls[w][j].cmd = "chgrp" /\ calls[w][j].phase = "drain"

(* ---------------------------------------------------------------------- *)
(* C4                                                                      *)
(* ---------------------------------------------------------------------- *)
\* C4: with -G, in every process (the workers and the main process on the
\* single-file branch) the group change of a path set comes before its
\* permission change.
GroupBeforePermsEverywhere ==
  (Parsed /\ config.set_group) =>
    \A p \in DOMAIN calls :
      GroupThenPerms(calls[p], config.group,
                     IF p = 0 THEN pc = "fastmod_file"
                     ELSE workers[p].pc \in {"flush", "drain"})

(* ---------------------------------------------------------------------- *)
(* C5                                                                      *)
(* ---------------------------------------------------------------------- *)
\* C5: a worker that has ended took exactly one termination signal from the
\* queue, as the last item it took, and has passed every path it buffered to
\* chmod.
WorkerEndsAfterSignalAndDrain ==
  \A w \in DOMAIN workers :
    workers[w].pc = "done" =>
      /\ Len(SentinelsOf(received[w])) = 1
      /\ received[w][Len(received[w])] = Sentinel
      /\ Unapplied(w) = {}
      /\ \A k \in DOMAIN workers[w].buffer : \A p \in workers[w].buffer[k] : AppliedBy(w, p)

\* A worker has ended holding two groups (directory and file permissions
\* differ), both flushed by the drain.
WorkerEndsWitness ==
  \E w \in DOMAIN workers :
    /\ workers[w].pc = "done"
    /\ Len(workers[w].order) = 2
    /\ \A k \in DOMAIN workers[w].buffer : workers[w].buffer[k] # {}
    /\ \A i \in 1..Len(calls[w]) : calls[w][i].phase = "drain"

(* ---------------------------------------------------------------------- *)
(* C6                                                                      *)
(* ---------------------------------------------------------------------- *)
AllWorkersDone == \A w \in DOMAIN workers : workers[w].pc = "done"

\* C6: run termination.  Termination signals are enqueued only once the
\* walk is over and never more than ncpus of them; when the join loop is
\* over exactly ncpus have been enqueued and every worker has ended; and with
\* every process scheduled fairly a folder run always reaches its report
\* step.
RunTerminates ==
  /\ [](FolderRun =>
          /\ Len(SentinelsOf(enqueued)) <= config.ncpus
          /\ (Len(SentinelsOf(enqueued)) > 0 => WalkOver /\ total = Entries(fs))
          /\ (pc \in {"report", "exit"} =>
                /\ Len(SentinelsOf(enqueued)) = config.ncpus
                /\ Len(workers) = config.ncpus
                /\ AllWorkersDone))
  /\ (pc = "fastmod_folder") ~> (pc = "report")

\* A run with two workers has reached the report step: both consumed a
\* termination signal and the queue is empty.
RunTerminatesWitness ==
  /\ FolderRun
  /\ pc = "report"
  /\ Len(workers) >= 2
  /\ AllWorkersDone
  /\ queue = <<>>

(* ---------------------------------------------------------------------- *)
(* C7                                                                      *)
(* ---------------------------------------------------------------------- *)
\* C7: with a block size B >= 1, every flush inside the loop passes exactly
\* B paths, a worker waiting on the queue holds fewer than B paths in each of
\* its groups, and the step that ends a flush inside the loop leaves the
\* flushed group empty.
FlushAtExactlyBlockSize ==
  /\ [](config.blocksize >= 1 =>
          \A w \in DOMAIN workers :
            /\ \A i \in 1..Len(calls[w]) :
                 calls[w][i].phase = "loop" =>
                   Cardinality(calls[w][i].paths) = config.blocksize
            /\ workers[w].pc = "get" =>
                 \A k \in DOMAIN workers[w].buffer :
                   Cardinality(workers[w].buffer[k]) < config.blocksize)
  /\ [][\A w \in DOMAIN workers :
          (config.blocksize >= 1 /\ workers[w].pc = "flush" /\ workers'[w].pc = "get") =>
            workers'[w].buffer[workers[w].perms] = {}]_vars

\* With block size 2 a worker is back at the queue right after a flush of
\* two paths, the flushed group empty.
FlushAtExactlyBlockSizeWitness ==
  /\ config.blocksize = 2
  /\ \E w \in DOMAIN workers :
       /\ workers[w].pc = "get"
       /\ calls[w] # <<>>
       /\ calls[w][Len(calls[w])].phase = "loop"
       /\ Cardinality(calls[w][Len(calls[w])].paths) = 2
       /\ workers[w].buffer[workers[w].perms] = {}

(* ---------------------------------------------------------------------- *)
(* C8                                                                      *)
(* ---------------------------------------------------------------------- *)
\* C8: every chgrp and chmod call a worker makes, inside the loop or in the
\* drain, names at least one path, whatever the block size.
NeverFlushEmpty ==
  \A w \in DOMAIN workers : \A i \in 1..Len(calls[w]) : calls[w][i].paths # {}

\* With a block size below 1 a worker has ended: it flushed each path as it
\* came, and the drain passed over the groups left empty.
NeverFlushEmptyWitness ==
  /\ config.blocksize < 1
  /\ \E w \in DOMAIN workers :
       /\ workers[w].pc = "done"
       /\ Len(calls[w]) >= 2
       /\ \E k \in DOMAIN workers[w].buffer : workers[w].buffer[k] = {}

(* ---------------------------------------------------------------------- *)
(* C9                                                                      *)
(* ---------------------------------------------------------------------- *)
NoWorkerStarted == \A w \in DOMAIN workers : workers[w].pc = "new"
NothingApplied == \A p \in DOMAIN calls : calls[p] = <<>>

\* C9: with a block size below 1 or a worker count below 1 the run is
\* rejected: no worker is started, nothing is enqueued, nothing is applied,
\* and the process does not end with status 0.
InvalidConfigRejected ==
  (Parsed /\ IsDir(fs) /\ (config.blocksize < 1 \/ config.ncpus < 1)) =>
    /\ NoWorkerStarted
    /\ enqueued = <<>>
    /\ NothingApplied
    /\ status # <<0>>

(* ---------------------------------------------------------------------- *)
(* C10                                                                     *)
(* ---------------------------------------------------------------------- *)
\* C10: when the path does not exist and the process has ended, its status
\* is 1; at no moment of such a run has the queue been created, a worker
\* been created or started, a chmod or chgrp been run, or the summary (or
\* any message of a run) been printed.
MissingPathAborts ==
  (Len(argv) >= 2 /\ ~Exists(fs)) =>
    /\ ~hasQueue
    /\ workers = <<>>
    /\ NothingApplied
    /\ enqueued = <<>>
    /\ pc \in {"main", "parse_args", "exit"}
    /\ \A i \in 1..Len(out) : out[i] = "no such path"
    /\ pc = "exit" => status = <<1>>

\* The run over a missing path has ended with status 1 after the one
\* diagnostic.
MissingPathAbortsWitness ==
  /\ ~Exists(fs)
  /\ Len(argv) > 2
  /\ pc = "exit"
  /\ status = <<1>>
  /\ out = <<"no such path">>

(* ---------------------------------------------------------------------- *)
(* C11                                                                     *)
(* ---------------------------------------------------------------------- *)
\* The calls of a log that returned a non-zero status
FailedCalls(log) == { i \in 1..Len(log) : Ret(fs, log[i].paths) # 0 }

\* C11: a chgrp or chmod that returns a non-zero status stops nothing.  In a
\* folder run every chgrp of a worker, failed or not, is followed by the
\* chmod over the same paths; a worker back at the queue holds fewer than
\* block-size paths under every permission string; a worker that has ended
\* has passed every path it took to chmod; the report is made with every
\* worker ended; and a folder run always reaches its report.
ApplierFailureNonFatal ==
  /\ [](FolderRun =>
          /\ \A w \in DOMAIN workers :
                /\ GroupOrNone # None =>
                     GroupThenPerms(calls[w], GroupOrNone,
                                    workers[w].pc \in {"flush", "drain"}
                                      /\ workers[w].todo = <<"chmod">>)
                /\ workers[w].pc = "get" =>
                     \A p \in DOMAIN workers[w].buffer :
                       Cardinality(workers[w].buffer[p]) < config.blocksize
                /\ workers[w].pc = "done" => Unapplied(w) = {}
          /\ pc \in {"report", "exit"} => Len(workers) = config.ncpus /\ AllWorkersDone)
  /\ (pc = "fastmod_folder") ~> (pc = "report")

\* A run with two workers has made its report although commands failed: one
\* worker had a chgrp fail inside the loop, made the chmod after it and went
\* on to further calls; the other worker made calls of its own.
ApplierFailureNonFatalWitness ==
  /\ FolderRun /\ pc = "exit" /\ failed
  /\ \E v, w \in DOMAIN workers :
       /\ v # w
       /\ calls[v] # <<>>
       /\ \E i \in FailedCalls(calls[w]) :
            /\ calls[w][i].cmd = "chgrp" /\ calls[w][i].phase = "loop"
            /\ i + 2 <= Len(calls[w])
            /\ calls[w][i + 1].cmd = "chmod"

(* ---------------------------------------------------------------------- *)
(* C12                                                                     *)
(* ---------------------------------------------------------------------- *)
\* What a run in which every command succeeded prints and returns: the
\* settings, the worker count, and the summary of a folder or the "Done" of a
\* file, with exit status 0
CleanMessages ==
  {"Setting file permissions", "Setting directory permissions", "Setting group ownership",
   "Using", "Set permissions", "Done"}
CleanOutcome == status = <<0>> /\ Range(out) \subseteq CleanMessages

\* C12: a completed folder run in which some chgrp or chmod of a batch
\* returned a non-zero status differs in its outcome (exit status or output)
\* from a run in which none did.
FailuresRecorded == (FolderRun /\ pc = "exit" /\ failed) => ~CleanOutcome

(* ---------------------------------------------------------------------- *)
(* C13                                                                     *)
(* ---------------------------------------------------------------------- *)
\* C13: a folder run whose walk produced no task still ends with its summary
\* and exit status 0.
ReportSurvivesZeroCount ==
  (FolderRun /\ pc = "exit" /\ total = 0) =>
    (status = <<0>> /\ "Set permissions" \in Range(out))

(* ---------------------------------------------------------------------- *)
(* C14                                                                     *)
(* ---------------------------------------------------------------------- *)
\* The calls of the main process that run cmd
FileCalls(cmd) == { i \in 1..Len(calls[0]) : calls[0][i].cmd = cmd }

\* C14: when the target exists and is not a directory, no queue and no
\* worker is ever created and nothing is enqueued; every call is made by the
\* main process on the one path; and when the process has ended chmod has
\* run exactly once, and chgrp exactly once if a group is configured and not
\* at all otherwise.
SingleFileShortcut ==
  (Parsed /\ Exists(fs) /\ ~IsDir(fs)) =>
    /\ ~hasQueue
    /\ workers = <<>>
    /\ enqueued = <<>>
    /\ DOMAIN calls = {0}
    /\ \A i \in 1..Len(calls[0]) : calls[0][i].paths = {<<config.path>>}
    /\ Cardinality(FileCalls("chmod")) <= 1
    /\ Cardinality(FileCalls("chgrp")) <= 1
    /\ pc = "exit" =>
         /\ Cardinality(FileCalls("chmod")) = 1
         /\ Cardinality(FileCalls("chgrp")) = (IF config.set_group THEN 1 ELSE 0)
         /\ \A i \in FileCalls("chmod") : calls[0][i].arg = config.perms_fil
         /\ \A i \in FileCalls("chgrp") : calls[0][i].arg = config.group

\* The run on a single file with -G has ended after one chmod and one chgrp.
SingleFileShortcutWitness ==
  /\ Parsed
  /\ ~IsDir(fs)
  /\ config.set_group
  /\ pc = "exit"
  /\ status = <<0>>
  /\ Len(calls[0]) = 2

(* ---------------------------------------------------------------------- *)
(* C15                                                                     *)
(* ---------------------------------------------------------------------- *)
\* The chmod calls of worker w made in the given phase
PhaseChmods(w, phase) ==
  { i \in 1..Len(calls[w]) : calls[w][i].cmd = "chmod" /\ calls[w][i].phase = phase }
\* The chmod calls of all workers made in the given phase
RunChmods(phase) == { c \in Chmods : calls[c[1]][c[2]].phase = phase }

OnePermissionString == config.perms_fil = config.perms_dir

\* C15 as stated: in a completed run whose N tasks all carry one permission
\* string, with block size B >= 1 (and at least one worker), the flushes of
\* the run are N div B flushes of exactly B paths inside the loop and, when
\* N mod B > 0, one drain flush of N mod B paths.
RunBatchSizes ==
  (Reported /\ OnePermissionString /\ config.blocksize >= 1 /\ config.ncpus >= 1) =>
    LET N == Len(TasksOf(enqueued))
        B == config.blocksize
    IN  /\ Cardinality(RunChmods("loop")) = N \div B
        /\ \A c \in RunChmods("loop") : Cardinality(calls[c[1]][c[2]].paths) = B
        /\ Cardinality(RunChmods("drain")) = (IF N % B > 0 THEN 1 ELSE 0)
        /\ \A c \in RunChmods("drain") : Cardinality(calls[c[1]][c[2]].paths) = N % B

\* C15 amended: the same per worker.  When all tasks carry one permission
\* string and B >= 1, a worker that has ended after taking n tasks made
\* n div B flushes of exactly B paths inside the loop and, when n mod B > 0,
\* one drain flush of n mod B paths (with one worker n is the N of the run).
WorkerBatchSizes ==
  (FolderRun /\ OnePermissionString /\ config.blocksize >= 1) =>
    \A w \in DOMAIN workers :
      workers[w].pc = "done" =>
        LET n == Len(TasksOf(received[w]))
            B == config.blocksize
        IN  /\ Cardinality(PhaseChmods(w, "loop")) = n \div B
            /\ \A i \in PhaseChmods(w, "loop") : Cardinality(calls[w][i].paths) = B
            /\ Cardinality(PhaseChmods(w, "drain")) = (IF n % B > 0 THEN 1 ELSE 0)
            /\ \A i \in PhaseChmods(w, "drain") : Cardinality(calls[w][i].paths) = n % B

\* With one permission string and block size 2, a worker has ended after
\* taking three tasks: one flush of two paths and a drain of one.
WorkerBatchSizesWitness ==
  /\ FolderRun
  /\ OnePermissionString
  /\ config.blocksize = 2
  /\ \E w \in DOMAIN workers :
       /\ workers[w].pc = "done"
       /\ Len(TasksOf(received[w])) = 3
       /\ Cardinality(PhaseChmods(w, "loop")) = 1
       /\ Cardinality(PhaseChmods(w, "drain")) = 1

(* ---------------------------------------------------------------------- *)
(* C17                                                                     *)
(* ---------------------------------------------------------------------- *)
\* C17: in every state where fastmod_folder has printed its summary, all
\* workers have ended, every enqueued path has been passed to chmod, and the
\* queue is empty.
ReportOnlyAfterCompletion ==
  Reported =>
    /\ Len(workers) = config.ncpus
    /\ AllWorkersDone
    /\ \A i \in 1..Len(TasksOf(enqueued)) : ChmodsWith(PathOf(TasksOf(enqueued)[i])) # {}
    /\ queue = <<>>

(* ---------------------------------------------------------------------- *)
(* C18                                                                     *)
(* ---------------------------------------------------------------------- *)
SomeSentinelTaken == \E w \in DOMAIN received : SentinelsOf(received[w]) # <<>>

\* C18: the queue always holds tasks first and termination signals after
\* them; once a worker has taken a termination signal the queue holds no task
\* and none is put any more; so when the workers (at least one) have all
\* ended every task has been taken by a worker.
SentinelsTrailWork ==
  /\ \A i, j \in 1..Len(queue) : (queue[i] = Sentinel /\ i < j) => queue[j] = Sentinel
  /\ SomeSentinelTaken => (TasksOf(queue) = <<>> /\ pc # "walk")
  /\ (workers # <<>> /\ AllWorkersDone) =>
       /\ TasksOf(queue) = <<>>
       /\ \A i \in 1..Len(TasksOf(enqueued)) :
            \E w \in DOMAIN received : TasksOf(enqueued)[i] \in Range(received[w])

\* One of two workers has taken its termination signal while the other is
\* still at work on tasks it took before; the queue holds only the other
\* signal.
SentinelsTrailWorkWitness ==
  /\ Len(workers) >= 2
  /\ queue = <<Sentinel>>
  /\ \E v, w \in DOMAIN workers :
       /\ workers[v].pc = "done"
       /\ workers[w].pc = "flush"
       /\ TasksOf(received[v]) # <<>>
       /\ TasksOf(received[w]) # <<>>

(* ---------------------------------------------------------------------- *)
(* C19                                                                     *)
(* ---------------------------------------------------------------------- *)
\* C19: with a block size B >= 1 no chgrp or chmod call of a worker names
\* more than B paths, and a call made in the drain names between 1 and B - 1.
BatchNeverAboveBlockSize ==
  config.blocksize >= 1 =>
    \A w \in DOMAIN workers : \A i \in 1..Len(calls[w]) :
      /\ Cardinality(calls[w][i].paths) <= config.blocksize
      /\ calls[w][i].phase = "drain" =>
           /\ Cardinality(calls[w][i].paths) >= 1
           /\ Cardinality(calls[w][i].paths) <= config.blocksize - 1

\* With block size 2 a worker has ended after a flush of two paths inside
\* the loop and a drain of one.
BatchNeverAboveBlockSizeWitness ==
  /\ config.blocksize = 2
  /\ \E w \in DOMAIN workers :
       /\ workers[w].pc = "done"
       /\ \E i, j \in 1..Len(calls[w]) :
            /\ calls[w][i].phase = "loop" /\ Cardinality(calls[w][i].paths) = 2
            /\ calls[w][j].phase = "drain" /\ Cardinality(calls[w][j].paths) = 1

(* ---------------------------------------------------------------------- *)
(* C16                                                                     *)
(* ---------------------------------------------------------------------- *)
\* What the configuration asks for: every directory with the directory
\* permissions, every file with the file permissions (a single file target
\* too), and all of them with the group when one is set
ExpectedDisk ==
  [ p \in DiskPaths(fs) |->
      [mode |-> IF IsDir(fs) /\ p \in { RootOf(fs, d) : d \in 1..fs.nd }
                THEN config.perms_dir ELSE config.perms_fil,
       group |-> IF config.set_group THEN config.group ELSE "created"] ]

\* C16: with chmod and chgrp that set a path's mode and group from their
\* argument alone, a run that has ended leaves on disk what the
\* configuration asks for whatever the interleaving of the workers was, and
\* a second run with the same command line over the same tree ends with the
\* disk as the first run left it.
SecondRunChangesNothing ==
  /\ (Parsed /\ pc = "exit") => disk = ExpectedDisk
  /\ (run = 2 /\ pc = "exit") => disk = firstDisk

\* The second run over a directory has ended: two workers both made calls,
\* and the disk is no longer as it was created.
SecondRunChangesNothingWitness ==
  /\ run = 2 /\ pc = "exit" /\ FolderRun
  /\ Len(workers) = 2
  /\ \A w \in DOMAIN workers : calls[w] # <<>>
  /\ firstDisk # FreshDisk(fs)

====
